---- MODULE Spec2Model ----
(***************************************************************************)
(* Model of the todo-modelgen plugin (src/plugin/main.go): the host calls  *)
(* InjectSourceEarly, merges the returned source into the schema and then  *)
(* calls Plugin.MutateConfig once.  MutateConfig ranges over the map       *)
(* cfg.Schema.Types (Go map iteration: any order), buckets every type,     *)
(* sorts three of the four buckets, registers every name in cfg.Models and *)
(* hands the ModelBuild to templates.Render.                               *)
(*                                                                         *)
(* Strings that the code builds by concatenation or Sprintf are sequences  *)
(* of their pieces; the empty string is <<>>.  Descriptions are copied     *)
(* verbatim by the code and are left out of the records.                   *)
(***************************************************************************)
EXTENDS Integers, Sequences, FiniteSets, TLC

\* ------------------------------------------------------------------ bounds
MaxTypes == 2        \* user-declared types in a schema
MaxFields == 2       \* fields of one object type
MaxListDepth == 1    \* nesting of list wrappers in a field's type

\* --------------------------------------------------------------- constants
KindScalar == "SCALAR"
KindObject == "OBJECT"
KindInterface == "INTERFACE"
KindUnion == "UNION"
KindEnum == "ENUM"
KindInputObject == "INPUT_OBJECT"
\* ast.DefinitionKind is a string type: a Definition whose Kind was never
\* set carries the zero value, which is none of the six constants.
KindUnset == ""

KnownKinds == {KindScalar, KindObject, KindInterface, KindUnion, KindEnum, KindInputObject}
AllKinds == KnownKinds \cup {KindUnset}

NilDef == "<nil>"                 \* a nil *ast.Definition (absent root)
UserTypeNames == {"Node", "User", "post"}
FieldNames == <<"id", "title", "body", "owner">>
RawValues == {"title_col"}        \* raw values of a fieldName argument
FieldAlias == "Alias"             \* a non-empty FieldName override
ImportPath == "myapp/graph/model" \* cfg.Model.ImportPath()
GraphqlString == <<"github.com/99designs/gqlgen/graphql.String">>
OverrideStrings == {<<"myapp/models.Account">>, <<"myapp/models.Amount">>, <<"myapp/models.Missing">>}

\* The bytes of every type name: Go compares strings bytewise.
NameBytes ==
    "Node" :> <<78, 111, 100, 101>> @@
    "User" :> <<85, 115, 101, 114>> @@
    "post" :> <<112, 111, 115, 116>> @@
    "Time" :> <<84, 105, 109, 101>> @@
    "String" :> <<83, 116, 114, 105, 110, 103>>

\* templates.ToGo: the exported Go identifier of a schema name.
ToGo(name) ==
    CASE name = "post" -> "Post"
      [] OTHER -> name

\* ------------------------------------------------------------------- state
VARIABLES
    pc,          \* position of the run: main, classify, register, returned, panicked
    schema,      \* cfg.Schema.Types: name -> Definition
    roots,       \* cfg.Schema.Query / Mutation / Subscription
    cfgModels,   \* cfg.Models (config.TypeMap)
    remaining,   \* types the range loop of line 110 has not visited yet
    b,           \* the ModelBuild under construction
    regIdx,      \* entries of the registration loops already done
    hostLog,     \* host-observable calls so far: cfg.Models.Add and templates.Render
    rendered,    \* the Data values handed to templates.Render
    result       \* what the run returned

vars == <<pc, schema, roots, cfgModels, remaining, b, regIdx, hostLog, rendered, result>>

\* ---------------------------------------------------------- Go string <
RECURSIVE BytesLess(_, _)
BytesLess(x, y) ==
    IF y = <<>> THEN FALSE
    ELSE IF x = <<>> THEN TRUE
    ELSE IF Head(x) # Head(y) THEN Head(x) < Head(y)
    ELSE BytesLess(Tail(x), Tail(y))

StringLess(s, t) == BytesLess(NameBytes[s], NameBytes[t])

\* ------------------------------------------------------------- ast.Type
NamedType(name, nonNull) == [NamedType |-> name, Elem |-> <<>>, NonNull |-> nonNull]
ListType(elem, nonNull) == [NamedType |-> "", Elem |-> <<elem>>, NonNull |-> nonNull]

RECURSIVE AstTypeName(_)
AstTypeName(t) == IF t.Elem # <<>> THEN AstTypeName(t.Elem[1]) ELSE t.NamedType

\* ------------------------------------------------------------- go/types
NewNamed(pkg, name, underlying) ==
    [mods |-> <<>>, pkg |-> pkg, name |-> name, under |-> underlying]
NewPointer(t) == [t EXCEPT !.mods = <<"ptr">> \o @]
NewSlice(t) == [t EXCEPT !.mods = <<"slice">> \o @]

isStruct_NoUnderlying(t) == FALSE
isStruct(t) == t.mods = <<>> /\ t.under = "struct"

IsNilable(t) == t.mods # <<>> \/ t.under = "interface"

\* binder.CopyModifiersFromAst: a list becomes a slice of its element (a
\* struct element is held by pointer), a nullable named type becomes a
\* pointer unless it is an interface or already nilable.
RECURSIVE CopyModifiersFromAst(_, _)
CopyModifiersFromAst(t, base) ==
    IF t.Elem # <<>>
    THEN LET child == CopyModifiersFromAst(t.Elem[1], base)
         IN  NewSlice(IF child.mods = <<>> /\ child.under = "struct"
                      THEN NewPointer(child) ELSE child)
    ELSE IF ~IsNilable(base) /\ ~t.NonNull THEN NewPointer(base) ELSE base

\* binder.FindTypeFromName: the override string names a struct, a
\* non-struct named type, or nothing the binder can find.
FindTypeFromName(name) ==
    CASE name = <<"myapp/models.Account">> ->
            [err |-> "", typ |-> NewNamed("myapp/models", "Account", "struct")]
      [] name = <<"myapp/models.Amount">> ->
            [err |-> "", typ |-> NewNamed("myapp/models", "Amount", "basic")]
      [] OTHER ->
            [err |-> "unable to find type", typ |-> NewNamed("", "", "nil")]

\* --------------------------------------------------------- config.TypeMap
TypeMapEntry(tm, name) ==
    IF name \in DOMAIN tm THEN tm[name] ELSE [Model |-> <<>>, Fields |-> <<>>]

UserDefined(tm, name) == name \in DOMAIN tm /\ Len(tm[name].Model) > 0

FieldNameOverride(tm, typeName, fieldName) ==
    LET fields == TypeMapEntry(tm, typeName).Fields
    IN  IF fieldName \in DOMAIN fields THEN fields[fieldName].FieldName ELSE ""

Add(tm, name, goType) ==
    LET entry == TypeMapEntry(tm, name)
    IN  (name :> [entry EXCEPT !.Model = Append(@, goType)]) @@ tm

\* ------------------------------------------------------------- directives
RECURSIVE ForName(_, _)
ForName(list, name) ==
    IF list = <<>> THEN <<>>
    ELSE IF Head(list).Name = name THEN <<Head(list)>>
    ELSE ForName(Tail(list), name)

\* ------------------------------------------------------------ the schema
IsRootType_QueryOnly(name) == name = roots.Query
IsRootType(name) ==
    name = roots.Query \/ name = roots.Mutation \/ name = roots.Subscription

GetImplements(def) == def.Interfaces

\* --------------------------- lines 147-182: a reference to a generated type
ResolveGenerated(field) ==
    LET tn == AstTypeName(field.Type)
        fieldDef == schema[tn]
    IN  CASE fieldDef.Kind = KindScalar ->
                [status |-> "ok", err |-> "",
                 typ |-> NewNamed(ImportPath, "string", "nil")]
          [] fieldDef.Kind \in {KindInterface, KindUnion} ->
                [status |-> "ok", err |-> "",
                 typ |-> NewNamed(ImportPath, ToGo(tn), "interface")]
          [] fieldDef.Kind = KindEnum ->
                [status |-> "ok", err |-> "",
                 typ |-> NewNamed(ImportPath, ToGo(tn), "nil")]
          [] fieldDef.Kind \in {KindObject, KindInputObject} ->
                [status |-> "ok", err |-> "",
                 typ |-> NewNamed(ImportPath, ToGo(tn), "struct")]
          [] OTHER ->
                [status |-> "panic", err |-> "unknown ast type",
                 typ |-> NewNamed("", "", "nil")]

\* ------------------------------------------- lines 137-183: the base type
ResolveType_DropErr(field) ==
    LET tn == AstTypeName(field.Type)
    IN  IF UserDefined(cfgModels, tn)
        THEN [status |-> "ok", err |-> "",
              typ |-> FindTypeFromName(cfgModels[tn].Model[1]).typ]
        ELSE ResolveGenerated(field)
ResolveType(field) ==
    LET tn == AstTypeName(field.Type)
    IN  IF UserDefined(cfgModels, tn)
        THEN LET r == FindTypeFromName(cfgModels[tn].Model[1])
             IN  IF r.err # ""
                 THEN [status |-> "error", err |-> r.err, typ |-> r.typ]
                 ELSE [status |-> "ok", err |-> "", typ |-> r.typ]
        ELSE ResolveGenerated(field)

\* ------------------------------------------ lines 196-205: the gorm tag
GormType_OverriddenName(field, name) ==
    LET directive == ForName(field.Directives, "isDatabaseField")
    IN  IF directive = <<>> THEN <<>>
        ELSE LET arg == ForName(directive[1].Arguments, "fieldName")
             IN  IF arg # <<>>
                 THEN <<"gorm:\"column:", arg[1].Raw, "\"">>
                 ELSE <<"gorm:\"column:", name, "\"">>
GormType(field, name) ==
    LET directive == ForName(field.Directives, "isDatabaseField")
    IN  IF directive = <<>> THEN <<>>
        ELSE LET arg == ForName(directive[1].Arguments, "fieldName")
             IN  IF arg # <<>>
                 THEN <<"gorm:\"column:", arg[1].Raw, "\"">>
                 ELSE <<"gorm:\"column:", field.Name, "\"">>

\* ------------------------------------ lines 185-213: one Field descriptor
ComposeField(schemaType, field, baseTyp) ==
    LET nameOveride == FieldNameOverride(cfgModels, schemaType.Name, field.Name)
        name == IF nameOveride # "" THEN nameOveride ELSE field.Name
        fieldDef == schema[AstTypeName(field.Type)]
        typ == CopyModifiersFromAst(field.Type, baseTyp)
    IN  [Name |-> name,
         Type |-> IF isStruct(typ) /\ fieldDef.Kind \in {KindObject, KindInputObject}
                  THEN NewPointer(typ) ELSE typ,
         Tag |-> <<"json:\"", field.Name, "\"">>,
         Gorm |-> GormType(field, name)]

\* -------------------------------------- lines 136-214: the loop over fields
RECURSIVE ComposeFields(_, _, _)
ComposeFields(schemaType, i, acc) ==
    IF i > Len(schemaType.Fields)
    THEN [status |-> "ok", err |-> "", fields |-> acc]
    ELSE LET field == schemaType.Fields[i]
             r == ResolveType(field)
         IN  IF r.status # "ok"
             THEN [status |-> r.status, err |-> r.err, fields |-> <<>>]
             ELSE ComposeFields(schemaType, i + 1,
                                Append(acc, ComposeField(schemaType, field, r.typ)))

\* ------------------------------------------------ lines 128-216: one Object
BuildObject(schemaType) ==
    LET r == ComposeFields(schemaType, 1, <<>>)
    IN  [status |-> r.status, err |-> r.err,
         it |-> [Name |-> schemaType.Name, Fields |-> r.fields,
                 Implements |-> GetImplements(schemaType)]]

\* ---------------------------------------------- lines 235-237: sort.Slice
RECURSIVE Insert(_, _)
Insert(s, e) ==
    IF s = <<>> THEN <<e>>
    ELSE IF StringLess(e.Name, Head(s).Name) THEN <<e>> \o s
    ELSE <<Head(s)>> \o Insert(Tail(s), e)

RECURSIVE SortByName(_)
SortByName_Unsorted(s) == s
SortByName(s) == IF s = <<>> THEN <<>> ELSE Insert(SortByName(Tail(s)), Head(s))

\* ----------------------------------------- lines 239-250: what is registered
GeneratedType(name) == <<ImportPath, ".", ToGo(name)>>

RECURSIVE Registrations(_, _)
Registrations(s, cat) ==
    IF s = <<>> THEN <<>>
    ELSE <<[cat |-> cat, name |-> Head(s).Name, goType |-> GeneratedType(Head(s).Name)]>>
         \o Registrations(Tail(s), cat)

RECURSIVE ScalarRegistrations(_)
ScalarRegistrations(s) ==
    IF s = <<>> THEN <<>>
    ELSE <<[cat |-> "Scalars", name |-> Head(s), goType |-> GraphqlString]>>
         \o ScalarRegistrations(Tail(s))

RegistrationQueue_ModelsFirst(mb) ==
    Registrations(mb.Models, "Models") \o Registrations(mb.Enums, "Enums")
    \o Registrations(mb.Interfaces, "Interfaces") \o ScalarRegistrations(mb.Scalars)
RegistrationQueue_NoScalars(mb) ==
    Registrations(mb.Enums, "Enums") \o Registrations(mb.Models, "Models")
    \o Registrations(mb.Interfaces, "Interfaces")
RegistrationQueue(mb) ==
    Registrations(mb.Enums, "Enums") \o Registrations(mb.Models, "Models")
    \o Registrations(mb.Interfaces, "Interfaces") \o ScalarRegistrations(mb.Scalars)

\* ----------------------------------------------------------------- inputs
EmptyTypeMap == [n \in {} |-> [Model |-> <<>>, Fields |-> <<>>]]
EmptyBuild == [Interfaces |-> <<>>, Models |-> <<>>, Enums |-> <<>>, Scalars |-> <<>>]
NoRoots == [Query |-> NilDef, Mutation |-> NilDef, Subscription |-> NilDef]

Definition(name, kind, builtIn, fields, interfaces) ==
    [Name |-> name, Kind |-> kind, BuiltIn |-> builtIn, Fields |-> fields,
     Interfaces |-> interfaces,
     EnumValues |-> IF kind = KindEnum THEN <<"ACTIVE", "DONE">> ELSE <<>>]

\* the prelude the schema loader always supplies
Prelude == "String" :> Definition("String", KindScalar, TRUE, <<>>, <<>>)

PlainField(name) ==
    [Name |-> name, Type |-> NamedType("String", TRUE), Directives |-> <<>>]

RECURSIVE AstTypes(_, _)
AstTypes(names, depth) ==
    IF depth = 0
    THEN {NamedType(n, nn) : n \in names, nn \in BOOLEAN}
    ELSE AstTypes(names, depth - 1)
         \cup {ListType(e, nn) : e \in AstTypes(names, depth - 1), nn \in BOOLEAN}

DirectiveLists ==
    {<<>>,
     <<[Name |-> "goField", Arguments |-> <<[Name |-> "name", Raw |-> "other"]>>]>>,
     <<[Name |-> "isDatabaseField", Arguments |-> <<>>]>>}
    \cup {<<[Name |-> "isDatabaseField",
             Arguments |-> <<[Name |-> "fieldName", Raw |-> r]>>]>> : r \in RawValues}

\* Schemas that vary in their types: up to MaxTypes declared types of any
\* kind; each root operation type is absent or one of the object types.
TypeSchema(S, kindOf, q, m, s) ==
    [schema |-> Prelude @@
                [t \in S |->
                   Definition(t, kindOf[t], FALSE,
                              IF kindOf[t] \in {KindObject, KindInputObject}
                              THEN <<PlainField(FieldNames[1])>> ELSE <<>>,
                              IF kindOf[t] = KindObject /\ t # "Node" /\ "Node" \in S
                                 /\ kindOf["Node"] = KindInterface
                              THEN <<"Node">> ELSE <<>>)],
     roots |-> [Query |-> q, Mutation |-> m, Subscription |-> s],
     models |-> EmptyTypeMap]

RootChoices(S, kindOf) == {t \in S : kindOf[t] = KindObject} \cup {NilDef}

TypeSchemas ==
    UNION {
      UNION {
        {TypeSchema(S, kindOf, q, m, s) :
            q \in RootChoices(S, kindOf),
            m \in RootChoices(S, kindOf),
            s \in RootChoices(S, kindOf)} :
          kindOf \in [S -> AllKinds]} :
        S \in {X \in SUBSET UserTypeNames : Cardinality(X) <= MaxTypes}}

\* Schemas that vary in one field's type: the object User has one field
\* whose type names User, Node or String, Node is of any kind, and at most
\* one of the three has a user-defined model.
ResolverModels ==
    {EmptyTypeMap}
    \cup {n :> [Model |-> <<o>>, Fields |-> <<>>] :
            n \in {"User", "Node", "String"}, o \in OverrideStrings}

ResolverSchemas ==
    {[schema |-> Prelude @@
                 "Node" :> Definition("Node", k, FALSE, <<>>, <<>>) @@
                 "User" :> Definition("User", KindObject, FALSE,
                                      <<[Name |-> FieldNames[1], Type |-> t,
                                         Directives |-> <<>>]>>, <<>>),
      roots |-> NoRoots,
      models |-> tm] :
        k \in AllKinds,
        t \in AstTypes({"User", "Node", "String"}, MaxListDepth),
        tm \in ResolverModels}

\* Schemas that vary in the directives and name overrides of the fields of
\* the object User, which implements the interface Node, beside the enum
\* post.
FieldChoices == DirectiveLists \X {"", FieldAlias}

ComposerSchemas ==
    UNION {
      {[schema |-> Prelude @@
                   "Node" :> Definition("Node", KindInterface, FALSE, <<>>, <<>>) @@
                   "post" :> Definition("post", KindEnum, FALSE, <<>>, <<>>) @@
                   "User" :> Definition("User", KindObject, FALSE,
                                        [i \in 1..n |->
                                           [Name |-> FieldNames[i],
                                            Type |-> NamedType("String", TRUE),
                                            Directives |-> c[i][1]]], <<"Node">>),
        roots |-> NoRoots,
        models |-> "User" :>
                     [Model |-> <<>>,
                      Fields |-> [f \in {FieldNames[i] : i \in {j \in 1..n : c[j][2] # ""}}
                                    |-> [FieldName |-> FieldAlias]]]] :
          c \in [1..n -> FieldChoices]} : n \in 1..MaxFields}

Inputs == TypeSchemas \cup ResolverSchemas \cup ComposerSchemas

Init ==
    \E in \in Inputs :
        /\ schema = in.schema
        /\ roots = in.roots
        /\ cfgModels = in.models
        /\ pc = "main"
        /\ remaining = {}
        /\ b = EmptyBuild
        /\ regIdx = 0
        /\ hostLog = <<>>
        /\ rendered = <<>>
        /\ result = [kind |-> "none", msg |-> ""]

\* ---------------------------------------------------------------- actions
\* lines 357-372: the host merges the injected source (scalar Time, declared
\* with BuiltIn: false) into the schema; then MutateConfig starts its pass
\* (lines 104-110).
InjectSourceEarly ==
    /\ pc = "main"
    /\ schema' = schema @@ ("Time" :> Definition("Time", KindScalar, FALSE, <<>>, <<>>))
    /\ remaining' = DOMAIN schema'
    /\ b' = EmptyBuild
    /\ pc' = "classify"
    /\ UNCHANGED <<roots, cfgModels, regIdx, hostLog, rendered, result>>

\* lines 110-234: one iteration of the range over cfg.Schema.Types
ClassifyType(t) ==
    /\ pc = "classify"
    /\ t \in remaining
    /\ remaining' = remaining \ {t}
    /\ LET schemaType == schema[t]
       IN  IF schemaType.BuiltIn
           THEN UNCHANGED <<b, pc, result>>
           ELSE CASE schemaType.Kind \in {KindInterface, KindUnion} ->
                       /\ b' = [b EXCEPT !.Interfaces = Append(@, [Name |-> schemaType.Name])]
                       /\ UNCHANGED <<pc, result>>
                  [] schemaType.Kind \in {KindObject, KindInputObject} ->
                       IF IsRootType(t)
                       THEN UNCHANGED <<b, pc, result>>
                       ELSE LET o == BuildObject(schemaType)
                            IN  CASE o.status = "ok" ->
                                       /\ b' = [b EXCEPT !.Models = Append(@, o.it)]
                                       /\ UNCHANGED <<pc, result>>
                                  [] o.status = "error" ->
                                       /\ pc' = "returned"
                                       /\ result' = [kind |-> "error", msg |-> o.err]
                                       /\ UNCHANGED b
                                  [] OTHER ->
                                       /\ pc' = "panicked"
                                       /\ result' = [kind |-> "panic", msg |-> o.err]
                                       /\ UNCHANGED b
                  [] schemaType.Kind = KindEnum ->
                       /\ b' = [b EXCEPT !.Enums =
                                   Append(@, [Name |-> schemaType.Name,
                                              Values |-> schemaType.EnumValues])]
                       /\ UNCHANGED <<pc, result>>
                  [] schemaType.Kind = KindScalar ->
                       /\ b' = [b EXCEPT !.Scalars = Append(@, schemaType.Name)]
                       /\ UNCHANGED <<pc, result>>
                  [] OTHER ->
                       UNCHANGED <<b, pc, result>>
    /\ UNCHANGED <<schema, roots, cfgModels, regIdx, hostLog, rendered>>

\* lines 235-237
SortCollections ==
    /\ pc = "classify"
    /\ remaining = {}
    /\ b' = [b EXCEPT !.Enums = SortByName(@),
                      !.Models = SortByName(@),
                      !.Interfaces = SortByName(@)]
    /\ pc' = "register"
    /\ regIdx' = 0
    /\ UNCHANGED <<schema, roots, cfgModels, remaining, hostLog, rendered, result>>

\* lines 239-250: one iteration of one of the four registration loops
Register(cat) ==
    /\ pc = "register"
    /\ regIdx < Len(RegistrationQueue(b))
    /\ LET r == RegistrationQueue(b)[regIdx + 1]
       IN  /\ r.cat = cat
           /\ cfgModels' = Add(cfgModels, r.name, r.goType)
           /\ hostLog' = Append(hostLog, [op |-> "Add", name |-> r.name, goType |-> r.goType])
    /\ regIdx' = regIdx + 1
    /\ UNCHANGED <<pc, schema, roots, remaining, b, rendered, result>>

RegisterEnum == Register("Enums")
RegisterModel == Register("Models")
RegisterInterface == Register("Interfaces")
RegisterScalar == Register("Scalars")

\* lines 252-349: nothing to generate, or templates.Render, whose error (if
\* any) is the result of the run
RenderDispatch ==
    /\ pc = "register"
    /\ regIdx >= Len(RegistrationQueue(b))
    /\ pc' = "returned"
    /\ IF Len(b.Models) = 0 /\ Len(b.Enums) = 0 /\ Len(b.Interfaces) = 0 /\ Len(b.Scalars) = 0
       THEN /\ result' = [kind |-> "nil", msg |-> ""]
            /\ UNCHANGED <<hostLog, rendered>>
       ELSE /\ rendered' = Append(rendered, b)
            /\ hostLog' = Append(hostLog, [op |-> "Render", name |-> "", goType |-> <<>>])
            /\ \E r \in {[kind |-> "nil", msg |-> ""], [kind |-> "error", msg |-> "render failed"]} :
                   result' = r
    /\ UNCHANGED <<schema, roots, cfgModels, remaining, b, regIdx>>

Next ==
    \/ InjectSourceEarly
    \/ \E t \in remaining : ClassifyType(t)
    \/ SortCollections
    \/ RegisterEnum
    \/ RegisterModel
    \/ RegisterInterface
    \/ RegisterScalar
    \/ RenderDispatch

Spec == Init /\ [][Next]_vars

\* ------------------------------------------------------- shared vocabulary
RootNames == {roots.Query, roots.Mutation, roots.Subscription} \ {NilDef}
Visited == IF pc = "main" THEN {} ELSE DOMAIN schema \ remaining
InjectedTypes == {"Time"}
SourceTypes == DOMAIN schema \ InjectedTypes      \* the types of the host's own sources

NamesIn(s) == {s[i].Name : i \in DOMAIN s}
ScalarsIn(s) == {s[i] : i \in DOMAIN s}
Ascending(s) ==
    \A i, j \in DOMAIN s : i < j => BytesLess(NameBytes[s[i].Name], NameBytes[s[j].Name])
Generated(kinds) ==
    {t \in DOMAIN schema : ~schema[t].BuiltIn /\ schema[t].Kind \in kinds}
StructShaped(t) == t.mods = <<>> /\ t.under = "struct"
Adds(name, upTo) ==
    {i \in 1..upTo : hostLog[i].op = "Add" /\ hostLog[i].name = name}

\* C1: the Models collection never holds the schema's Query, Mutation or
\* Subscription root, in whatever order the types were visited.
C1_RootsNeverModels ==
    /\ \A i \in DOMAIN b.Models : b.Models[i].Name \notin RootNames
    /\ \A r \in DOMAIN rendered :
           \A i \in DOMAIN rendered[r].Models : rendered[r].Models[i].Name \notin RootNames

C1_Witness ==
    /\ pc = "register"
    /\ roots.Subscription # NilDef
    /\ roots.Query # NilDef
    /\ roots.Query # roots.Subscription
    /\ \A r \in RootNames : schema[r].Kind = KindObject /\ ~schema[r].BuiltIn

\* C2: what the renderer receives is, for Enums, Models and Interfaces, the
\* ascending-by-name sequence of the entries of the schema's types of that
\* category, so it is a function of the schema and not of the order of the
\* visits; while the pass runs every model entry is the one its type yields.
C2_RenderedSorted ==
    /\ \A r \in DOMAIN rendered :
           LET d == rendered[r]
           IN  /\ Ascending(d.Enums) /\ Ascending(d.Models) /\ Ascending(d.Interfaces)
               /\ NamesIn(d.Enums) = Generated({KindEnum})
               /\ NamesIn(d.Interfaces) = Generated({KindInterface, KindUnion})
               /\ NamesIn(d.Models) = Generated({KindObject, KindInputObject}) \ RootNames
               /\ \A i \in DOMAIN d.Enums :
                      d.Enums[i].Values = schema[d.Enums[i].Name].EnumValues
               /\ \A i \in DOMAIN d.Models :
                      LET def == schema[d.Models[i].Name]
                      IN  /\ d.Models[i].Implements = def.Interfaces
                          /\ Len(d.Models[i].Fields) = Len(def.Fields)
                          /\ \A j \in DOMAIN def.Fields :
                                 d.Models[i].Fields[j].Tag = <<"json:\"", def.Fields[j].Name, "\"">>
    /\ pc = "classify" =>
           \A i \in DOMAIN b.Models : b.Models[i] = BuildObject(schema[b.Models[i].Name]).it

C2_Witness ==
    /\ rendered # <<>>
    /\ Len(rendered[1].Enums) + Len(rendered[1].Models) + Len(rendered[1].Interfaces) >= 2
    /\ \/ Len(rendered[1].Enums) >= 2
       \/ Len(rendered[1].Models) >= 2
       \/ Len(rendered[1].Interfaces) >= 2

\* C3: once every type has been visited, each non-built-in type that is not
\* a root operation type is in exactly one collection, once, the one of its
\* kind, and no built-in type is in any.
C3_EveryTypeClassifiedOnce ==
    pc = "register" =>
        \A t \in DOMAIN schema :
            LET inI == Cardinality({i \in DOMAIN b.Interfaces : b.Interfaces[i].Name = t})
                inM == Cardinality({i \in DOMAIN b.Models : b.Models[i].Name = t})
                inE == Cardinality({i \in DOMAIN b.Enums : b.Enums[i].Name = t})
                inS == Cardinality({i \in DOMAIN b.Scalars : b.Scalars[i] = t})
                k == schema[t].Kind
            IN  IF schema[t].BuiltIn
                THEN inI + inM + inE + inS = 0
                ELSE t \notin RootNames =>
                        /\ inI + inM + inE + inS = 1
                        /\ k \in {KindInterface, KindUnion} => inI = 1
                        /\ k \in {KindObject, KindInputObject} => inM = 1
                        /\ k = KindEnum => inE = 1
                        /\ k = KindScalar => inS = 1

\* the claim C3 for the types whose kind is one of the six, which the code
\* does satisfy
C3_KnownKindsClassifiedOnce ==
    pc = "register" =>
        \A t \in DOMAIN schema :
            LET inI == Cardinality({i \in DOMAIN b.Interfaces : b.Interfaces[i].Name = t})
                inM == Cardinality({i \in DOMAIN b.Models : b.Models[i].Name = t})
                inE == Cardinality({i \in DOMAIN b.Enums : b.Enums[i].Name = t})
                inS == Cardinality({i \in DOMAIN b.Scalars : b.Scalars[i] = t})
                k == schema[t].Kind
            IN  IF schema[t].BuiltIn \/ k \notin KnownKinds
                THEN inI + inM + inE + inS = 0
                ELSE t \notin RootNames =>
                        /\ inI + inM + inE + inS = 1
                        /\ k \in {KindInterface, KindUnion} => inI = 1
                        /\ k \in {KindObject, KindInputObject} => inM = 1
                        /\ k = KindEnum => inE = 1
                        /\ k = KindScalar => inS = 1

\* C4: when the renderer is invoked, every name of the four collections it
\* receives has been added to cfg.Models exactly once, earlier in the log,
\* and is not added again.
C4_RegisteredOnceBeforeRender ==
    \A r \in DOMAIN hostLog :
        hostLog[r].op = "Render" =>
            LET d == rendered[1]
            IN  \A n \in NamesIn(d.Enums) \cup NamesIn(d.Models)
                         \cup NamesIn(d.Interfaces) \cup ScalarsIn(d.Scalars) :
                    /\ Cardinality(Adds(n, r - 1)) = 1
                    /\ Cardinality(Adds(n, Len(hostLog))) = 1

C4_Witness ==
    /\ \E r \in DOMAIN hostLog : hostLog[r].op = "Render"
    /\ Len(rendered[1].Scalars) >= 2
    /\ Len(rendered[1].Models) >= 1

\* C5: a field that references an Object or InputObject is never stored
\* struct-shaped: a required, non-list reference to a struct is stored as
\* one pointer to it, exactly as a nullable one is, and a reference that the
\* modifiers made a pointer or a list is not wrapped again.
C5_StructFieldsByPointer ==
    \A i \in DOMAIN b.Models :
        LET def == schema[b.Models[i].Name]
        IN  \A j \in DOMAIN b.Models[i].Fields :
                LET sf == def.Fields[j]
                    typ == b.Models[i].Fields[j].Type
                IN  schema[AstTypeName(sf.Type)].Kind \in {KindObject, KindInputObject} =>
                        /\ ~StructShaped(typ)
                        /\ (typ.under = "struct" /\ sf.Type.Elem = <<>>) => typ.mods = <<"ptr">>
                        /\ (typ.under = "struct" /\ sf.Type.Elem # <<>>) =>
                               /\ Head(typ.mods) = "slice"
                               /\ typ.mods[Len(typ.mods)] = "ptr"
                               /\ Len(typ.mods) = Len(SelectSeq(typ.mods, LAMBDA m : m = "slice")) + 1

C5_Witness ==
    \E i \in DOMAIN b.Models :
        \E j \in DOMAIN b.Models[i].Fields :
            LET sf == schema[b.Models[i].Name].Fields[j]
            IN  /\ schema[AstTypeName(sf.Type)].Kind \in {KindObject, KindInputObject}
                /\ sf.Type.Elem = <<>>
                /\ sf.Type.NonNull
                /\ b.Models[i].Fields[j].Type.mods = <<"ptr">>
                /\ b.Models[i].Fields[j].Type.under = "struct"

\* C6: the gorm tag of a field is empty without an isDatabaseField
\* directive, names the schema field's declared name when the directive has
\* no fieldName argument, and names the argument's raw value when it has.
C6_GormColumn ==
    \A i \in DOMAIN b.Models :
        LET def == schema[b.Models[i].Name]
        IN  \A j \in DOMAIN b.Models[i].Fields :
                LET sf == def.Fields[j]
                    gorm == b.Models[i].Fields[j].Gorm
                    dirs == {d \in DOMAIN sf.Directives : sf.Directives[d].Name = "isDatabaseField"}
                IN  IF dirs = {} THEN gorm = <<>>
                    ELSE LET dir == sf.Directives[CHOOSE d \in dirs : \A e \in dirs : d <= e]
                             args == {a \in DOMAIN dir.Arguments : dir.Arguments[a].Name = "fieldName"}
                         IN  IF args = {}
                             THEN gorm = <<"gorm:\"column:", sf.Name, "\"">>
                             ELSE gorm = <<"gorm:\"column:",
                                           dir.Arguments[CHOOSE a \in args : \A e \in args : a <= e].Raw,
                                           "\"">>

C6_Witness ==
    \E i \in DOMAIN b.Models :
        \E j, k \in DOMAIN b.Models[i].Fields :
            LET sf == schema[b.Models[i].Name].Fields[j]
                sg == schema[b.Models[i].Name].Fields[k]
            IN  /\ sf.Directives = <<[Name |-> "isDatabaseField", Arguments |-> <<>>]>>
                /\ b.Models[i].Fields[j].Name = FieldAlias
                /\ b.Models[i].Fields[j].Gorm = <<"gorm:\"column:", sf.Name, "\"">>
                /\ sg.Directives # <<>>
                /\ sg.Directives[1].Name = "isDatabaseField"
                /\ sg.Directives[1].Arguments # <<>>

\* C7: a run over a schema whose sources declare no non-built-in type ends
\* with the four collections empty, without a call of the renderer, and
\* returns nil; and a run that gets past the registrations calls the
\* renderer exactly when one of the collections is not empty.
C7_NothingToGenerate ==
    pc = "returned" /\ result.msg # "unable to find type" =>
        /\ (\A t \in SourceTypes : schema[t].BuiltIn) =>
               /\ b = EmptyBuild
               /\ rendered = <<>>
               /\ result.kind = "nil"
        /\ rendered # <<>> <=> b # EmptyBuild

\* the part of the claim that the code does satisfy
C7_RenderIffNonEmpty ==
    pc = "returned" /\ result.msg # "unable to find type" =>
        (rendered # <<>> <=> b # EmptyBuild)

\* the first field of a type that stops the pass, and how
RECURSIVE FirstFatal(_, _)
FirstFatal(fields, i) ==
    IF i > Len(fields) THEN "ok"
    ELSE LET tn == AstTypeName(fields[i].Type)
         IN  IF UserDefined(cfgModels, tn)
             THEN IF cfgModels[tn].Model[1] = <<"myapp/models.Missing">>
                  THEN "error" ELSE FirstFatal(fields, i + 1)
             ELSE IF schema[tn].Kind \in KnownKinds
                  THEN FirstFatal(fields, i + 1) ELSE "panic"

Composed(t) ==
    /\ t \in Visited
    /\ ~schema[t].BuiltIn
    /\ schema[t].Kind \in {KindObject, KindInputObject}
    /\ t \notin RootNames

\* C8: once the pass has visited a non-built-in type of a kind outside the
\* six, or composed a field that references such a type without a
\* user-defined model, the run has panicked, and nothing was registered or
\* rendered.
C8_UnknownKindAborts ==
    hostLog = <<>> =>
        /\ \A t \in Visited :
               (~schema[t].BuiltIn /\ schema[t].Kind \notin KnownKinds) =>
                   pc = "panicked" /\ rendered = <<>>
        /\ \A t \in Visited :
               (Composed(t) /\ FirstFatal(schema[t].Fields, 1) = "panic") =>
                   pc = "panicked" /\ rendered = <<>>

\* the resolver's half of the claim, which the code does satisfy
C8_ResolverPanics ==
    /\ hostLog = <<>> =>
           \A t \in Visited :
               (Composed(t) /\ FirstFatal(schema[t].Fields, 1) = "panic") =>
                   pc = "panicked" /\ rendered = <<>> /\ result.kind = "panic"
    /\ pc = "panicked" => hostLog = <<>> /\ rendered = <<>>

\* C9: once the pass has composed a field whose user-defined model the
\* binder cannot resolve, the run has returned the binder's error, the type
\* is not among the models, nothing was registered or rendered, and no
\* further step is taken.
C9_BinderErrorState ==
    /\ hostLog = <<>> =>
           \A t \in Visited :
               (Composed(t) /\ FirstFatal(schema[t].Fields, 1) = "error") =>
                   /\ pc = "returned"
                   /\ result = [kind |-> "error", msg |-> "unable to find type"]
                   /\ rendered = <<>>
                   /\ t \notin NamesIn(b.Models)
    /\ result.msg = "unable to find type" =>
           pc = "returned" /\ hostLog = <<>> /\ rendered = <<>>

C9_BinderErrorAborts ==
    /\ []C9_BinderErrorState
    /\ [][result.msg # "unable to find type"]_vars

C9_Witness ==
    /\ result = [kind |-> "error", msg |-> "unable to find type"]
    /\ remaining # {}
    /\ Len(b.Scalars) >= 1

\* C10: the additions to cfg.Models come in the order enums, models,
\* interfaces, scalars; the first three kinds of name map to the generated
\* type's path, a scalar's name to graphql.String.
LogRank(e) ==
    LET k == schema[e.name].Kind
    IN  CASE k = KindEnum -> 1
          [] k \in {KindObject, KindInputObject} -> 2
          [] k \in {KindInterface, KindUnion} -> 3
          [] OTHER -> 4

C10_RegistrationOrder ==
    /\ \A i, j \in DOMAIN hostLog :
           (i < j /\ hostLog[i].op = "Add" /\ hostLog[j].op = "Add") =>
               LogRank(hostLog[i]) <= LogRank(hostLog[j])
    /\ \A i \in DOMAIN hostLog :
           hostLog[i].op = "Add" =>
               /\ schema[hostLog[i].name].Kind \in KnownKinds
               /\ IF schema[hostLog[i].name].Kind = KindScalar
                  THEN hostLog[i].goType = GraphqlString
                  ELSE hostLog[i].goType = <<ImportPath, ".", ToGo(hostLog[i].name)>>

C10_Witness ==
    /\ pc = "returned"
    /\ Len(b.Enums) >= 1 /\ Len(b.Models) >= 1
    /\ Len(b.Interfaces) >= 1 /\ Len(b.Scalars) >= 1
    /\ Len(hostLog) = 5
    /\ hostLog[5].op = "Render"

====
